---- MODULE Spec2Model ----
(***************************************************************************)
(* Model of polarion/record.py: class Record, the local projection of one  *)
(* test record of a Polarion test run, and the TestManagement service it   *)
(* talks to.                                                               *)
(*                                                                         *)
(* A Record instance is its __dict__: a function from attribute names to   *)
(* values.  Python None is Null for object-valued attributes and NoneStr   *)
(* for string-valued ones.  URIs are sequences of tokens in which the      *)
(* character '}' is a token of its own, so that str.split('}') is          *)
(* computed.  Python indices are 0-based, TLA+ sequences 1-based.          *)
(***************************************************************************)
EXTENDS Integers, Sequences, FiniteSets, TLC

VARIABLES
    run,     \* the service's test run: the sequence of its test records
    obj,     \* obj[p]: the __dict__ of Record instance p
    calls,   \* the service / HTTP calls the last operation issued, in order
    last,    \* the last operation: instance, name, arguments, injected failure,
             \* exception raised, the instance before it, the operation before it
    nops     \* the number of operations called so far

vars == <<run, obj, calls, last, nops>>

----------------------------------------------------------------------------
(* Bounds of the model *)

NumRecords == 2       \* records in the test run
MaxAttachments == 2   \* attachments the service keeps per record
MaxOps == 2           \* operations in one behaviour

----------------------------------------------------------------------------
(* Values *)

Null == [null |-> TRUE]
NoneStr == "<None>"

TestRunUri == "run-1"
TestRun == [uri |-> TestRunUri, id |-> "R1"]

\* 'subterra:...${WorkItem}TC-1' as tokens around the delimiter '}'
TC1 == <<"subterra:/Proj${WorkItem", "}", "Proj/TC-1">>
TC2 == <<"subterra:/Proj${WorkItem", "}", "Proj/TC-2">>

Instances == {"A", "B"}                      \* the Record instances alive

\* class ResultType(Enum): the enum's values; No = None
ResultType == {NoneStr, "passed", "failed", "blocked"}
FAILED == "failed"

\* self._polarion.EnumOptionIdType(id=...)
EnumOptionIdType(id) == [id |-> id]

\* self._polarion.TextType(content=..., type='text/html', contentLossy=False)
TextType(content) == [content |-> content, type |-> "text/html", contentLossy |-> FALSE]

\* self._polarion.TestStepResultType(): an empty step-result slot
TestStepResultType == [result |-> Null, comment |-> Null]

\* self._polarion.ArrayOfTestStepResultType(): an empty collection
ArrayOfTestStepResultType == [TestStepResult |-> <<>>]

----------------------------------------------------------------------------
(* Python primitives *)

\* setattr(self, key, value)
SetAttr(self, key, value) ==
    [a \in DOMAIN self \cup {key} |-> IF a = key THEN value ELSE self[a]]

\* s.split(d): the pieces of s between the occurrences of the delimiter d
RECURSIVE Split(_, _)
Split(s, d) ==
    IF s = <<>> THEN << <<>> >>
    ELSE LET rest == Split(Tail(s), d) IN
         IF Head(s) = d THEN << <<>> >> \o rest
         ELSE << <<Head(s)>> \o Head(rest) >> \o Tail(rest)

\* os.path.split(file_path)[1]: the last component of the path
PathBaseName(file_path) == file_path[Len(file_path)]

\* the attribute names of a Record that begin with '_'
Underscored ==
    {"_polarion", "_test_run", "_polarion_record", "_index",
     "_testcase", "_testcase_name", "_defect"}

\* attr.startswith('_')
StartsWithUnderscore(attr) == attr \in Underscored

----------------------------------------------------------------------------
(* The TestManagement service: the test run it stores and its calls *)

\* the time stamp the service puts on a record it executes
ServerTime == "t1"

\* the zeep object of a record: its __dict__ holds one mapping, __values__
Payload(bag) == [values |-> bag]

\* the 1-based positions of the run's records of testcase tc
MatchingRecords(r, tc) == {i \in 1..Len(r) : r[i].testCaseURI = tc}

\* service.getTestCaseRecords(test_run_uri, testcase_uri): the records of that
\* testcase in the run, in run order
GetTestCaseRecords(r, uri, tc) ==
    IF uri # TestRunUri THEN <<>>
    ELSE LET hit == SelectSeq(r, LAMBDA rec : rec.testCaseURI = tc)
         IN [i \in 1..Len(hit) |-> Payload(hit[i])]

\* a testcase reference without the namespace delimiter
MalformedReference == <<"Proj/TC-1">>

\* the answer of getTestCaseRecords under a fault of the service: no record
\* at all ("empty"), or records whose testcase reference cannot be parsed
\* ("malformed"); any other fault leaves the answer as it is
FaultyResponse(recs, fault) ==
    CASE fault = "empty" -> <<>>
      [] fault = "malformed" ->
            [i \in 1..Len(recs) |->
                Payload(SetAttr(recs[i].values, "testCaseURI", MalformedReference))]
      [] OTHER -> recs

\* service.executeTest(test_run_uri, record): the run's record of the
\* submitted record's testcase is replaced by the submitted record, stamped
ExecuteTest(r, uri, bag) ==
    LET hit == IF "testCaseURI" \in DOMAIN bag
               THEN MatchingRecords(r, bag.testCaseURI) ELSE {}
    IN IF uri # TestRunUri \/ hit = {} THEN r
       ELSE LET i == CHOOSE x \in hit : \A y \in hit : x <= y
            IN [r EXCEPT ![i] = SetAttr(bag, "executed", ServerTime)]

\* service.getTestSteps(testcase_uri): TC-1 has two steps, TC-2 none
GetTestSteps(tc) ==
    IF tc = TC1 THEN [steps |-> [TestStep |-> <<"step1", "step2">>]]
    ELSE [steps |-> Null]

\* the URL under which the service serves an attachment
AttachmentUrl(file_name) == <<"http://polarion/attachment", file_name>>

\* service.addAttachmentToTestRecord(uri, index, file_name, title, data)
AddAttachmentToTestRecord(r, uri, index, file_name, title) ==
    IF uri # TestRunUri \/ index + 1 \notin 1..Len(r) THEN r
    ELSE LET rec == r[index + 1]
             old == IF rec.attachments = Null THEN <<>>
                    ELSE rec.attachments.TestRunAttachment
             att == [fileName |-> file_name, title |-> title,
                     url |-> AttachmentUrl(file_name)]
         IN [r EXCEPT ![index + 1] =
                SetAttr(rec, "attachments", [TestRunAttachment |-> Append(old, att)])]

\* service.deleteAttachmentFromTestRecord(uri, index, file_name): removes the
\* attachment of that name; nothing to remove is no error
DeleteAttachmentFromTestRecord(r, uri, index, file_name) ==
    IF uri # TestRunUri \/ index + 1 \notin 1..Len(r) THEN r
    ELSE LET rec == r[index + 1]
         IN IF rec.attachments = Null THEN r
            ELSE [r EXCEPT ![index + 1] =
                    SetAttr(rec, "attachments",
                        [TestRunAttachment |->
                            SelectSeq(rec.attachments.TestRunAttachment,
                                      LAMBDA a : a.fileName # file_name)])]

----------------------------------------------------------------------------
(* class Record.  A method is an operator from the instance (and the run)  *)
(* to the instance and run it leaves, the calls it issued and the          *)
(* exception it raised ("none": it returned).                              *)

NoError == "none"

Outcome(self, r, cs, raised) == [self |-> self, run |-> r, calls |-> cs, raised |-> raised]

\* the fields the client's typed helpers and build step read or write
WellKnownFields ==
    {"testCaseURI", "defectURI", "result", "comment", "testStepResults",
     "attachments", "executedByURI", "executed"}

\* mutant of PublicBag: save sends the whole __dict__
PublicBagAll(self) == self

\* mutant of PublicBag: save sends only the fields the client knows
PublicBagKnown(self) ==
    [a \in {x \in DOMAIN self : x \in WellKnownFields} |-> self[a]]

\* the public part of self.__dict__: the attributes not starting with '_'
PublicBag(self) ==
    [a \in {x \in DOMAIN self : ~StartsWithUnderscore(x)} |-> self[a]]

\* the loop of _buildWorkitemFromPolarion: every key of every mapping of the
\* payload's __dict__ becomes an attribute
Flatten(self, payload) ==
    LET keys == UNION {DOMAIN payload[attr] : attr \in DOMAIN payload}
        from(k) == CHOOSE attr \in DOMAIN payload : k \in DOMAIN payload[attr]
    IN [a \in DOMAIN self \cup keys |->
            IF a \in keys THEN payload[from(a)][a] ELSE self[a]]

\* mutant of BuildWorkitemFromPolarion: the name is the piece before the
\* delimiter, split('}')[0]
BuildTakingNamespace(self) ==
    LET payload == self["_polarion_record"]
        s1 == Flatten(self, payload)
        s2 == SetAttr(s1, "_testcase", payload.values.testCaseURI)
        parts == Split(s2["_testcase"], "}")
    IN IF Len(parts) < 2 THEN [self |-> s2, raised |-> "IndexError"]
       ELSE [self |-> SetAttr(SetAttr(s2, "_testcase_name", parts[1]),
                              "_defect", payload.values.defectURI),
             raised |-> NoError]

\* Record._buildWorkitemFromPolarion
BuildWorkitemFromPolarion(self) ==
    LET payload == self["_polarion_record"]
        s1 == Flatten(self, payload)
        s2 == SetAttr(s1, "_testcase", payload.values.testCaseURI)
        parts == Split(s2["_testcase"], "}")
    IN IF Len(parts) < 2 THEN [self |-> s2, raised |-> "IndexError"]
       ELSE [self |-> SetAttr(SetAttr(s2, "_testcase_name", parts[2]),
                              "_defect", payload.values.defectURI),
             raised |-> NoError]

\* Record.__init__
NewRecord(polarion_record, index) ==
    BuildWorkitemFromPolarion(
        [a \in {"_polarion", "_test_run", "_polarion_record", "_index"} |->
            CASE a = "_polarion" -> "client"
              [] a = "_test_run" -> TestRun
              [] a = "_polarion_record" -> polarion_record
              [] a = "_index" -> index])

\* mutant of ReloadFromPolarion: the instance takes over the position of the
\* record it fetched, the first of its testcase
ReloadAdoptingPosition(self, r, fault) ==
    LET call == [call |-> "getTestCaseRecords", uri |-> self["_test_run"].uri,
                 testcase |-> self["_testcase"]]
        recs == FaultyResponse(
                    GetTestCaseRecords(r, self["_test_run"].uri, self["_testcase"]),
                    fault)
    IN IF fault = "fetch" THEN Outcome(self, r, <<call>>, "ServiceError")
       ELSE IF Len(recs) = 0 THEN Outcome(self, r, <<call>>, "IndexError")
       ELSE LET b == BuildWorkitemFromPolarion(SetAttr(self, "_polarion_record", recs[1]))
            IN Outcome(SetAttr(b.self, "_index", 0), r, <<call>>, b.raised)

\* Record._reloadFromPolarion; fault "fetch": the service call raises; faults
\* "empty" and "malformed": it answers as FaultyResponse says
ReloadFromPolarion(self, r, fault) ==
    LET call == [call |-> "getTestCaseRecords", uri |-> self["_test_run"].uri,
                 testcase |-> self["_testcase"]]
        recs == FaultyResponse(
                    GetTestCaseRecords(r, self["_test_run"].uri, self["_testcase"]),
                    fault)
    IN IF fault = "fetch" THEN Outcome(self, r, <<call>>, "ServiceError")
       ELSE IF Len(recs) = 0 THEN Outcome(self, r, <<call>>, "IndexError")
       ELSE LET b == BuildWorkitemFromPolarion(SetAttr(self, "_polarion_record", recs[1]))
            IN Outcome(b.self, r, <<call>>, b.raised)

\* mutant of Save: the write is refused when the service's record is no
\* longer the one the projection was loaded from
SaveDetectingConflict(self, r, inject) ==
    LET new_item == PublicBag(self)
        call == [call |-> "executeTest", uri |-> self["_test_run"].uri, record |-> new_item]
        recs == GetTestCaseRecords(r, self["_test_run"].uri, self["_testcase"])
    IN IF recs = <<>> \/ recs[1].values.executed # self["_polarion_record"].values.executed
       THEN Outcome(self, r, <<>>, "Conflict")
       ELSE IF inject = "write" THEN Outcome(self, r, <<call>>, "RemoteWriteFailure")
       ELSE LET rl == ReloadFromPolarion(
                          self, ExecuteTest(r, self["_test_run"].uri, new_item),
                          inject)
            IN Outcome(rl.self, rl.run, <<call>> \o rl.calls, rl.raised)

\* mutant of Save: the reload runs in a finally block, after a failed write too
SaveReloadAlways(self, r, inject) ==
    LET new_item == PublicBag(self)
        call == [call |-> "executeTest", uri |-> self["_test_run"].uri, record |-> new_item]
        rl == ReloadFromPolarion(
                  self,
                  IF inject = "write" THEN r
                  ELSE ExecuteTest(r, self["_test_run"].uri, new_item),
                  inject)
    IN Outcome(rl.self, rl.run, <<call>> \o rl.calls,
               IF inject = "write" THEN "RemoteWriteFailure" ELSE rl.raised)

\* Record.save; inject names the service call that raises, if any
Save(self, r, inject) ==
    LET new_item == PublicBag(self)
        call == [call |-> "executeTest", uri |-> self["_test_run"].uri, record |-> new_item]
    IN IF inject = "write" THEN Outcome(self, r, <<call>>, "RemoteWriteFailure")
       ELSE LET rl == ReloadFromPolarion(
                          self, ExecuteTest(r, self["_test_run"].uri, new_item),
                          inject)
            IN Outcome(rl.self, rl.run, <<call>> \o rl.calls, rl.raised)

\* Record.getResult
GetResult(self) == IF self.result # Null THEN self.result.id ELSE NoneStr

\* Record.getComment
GetComment(self) == IF self.comment # Null THEN self.comment.content ELSE NoneStr

\* Record.getTestCaseName
GetTestCaseName(self) == self["_testcase_name"]

\* Record.hasAttachment
HasAttachment(self) == self.attachments # Null

\* Record.setComment
SetComment(self, comment) == SetAttr(self, "comment", TextType(comment))

\* an assignment through self.<field> to an object the payload shares: the
\* attribute built from a non-null payload value is that same object
SharedUpdate(self, field, value) ==
    LET payload == self["_polarion_record"]
        s1 == SetAttr(self, field, value)
    IN IF payload.values[field] # Null
       THEN SetAttr(s1, "_polarion_record",
                    Payload(SetAttr(payload.values, field, value)))
       ELSE s1

\* mutant of SetResult: the comment argument is stored only after the save
SetResultCommentAfterSave(self, r, result, comment, inject) ==
    LET s2 == IF self.result # Null
              THEN SharedUpdate(self, "result", [self.result EXCEPT !.id = result])
              ELSE SetAttr(self, "result", EnumOptionIdType(result))
        sv == Save(s2, r, inject)
    IN Outcome(IF comment # NoneStr THEN SetComment(sv.self, comment) ELSE sv.self,
               sv.run, sv.calls, sv.raised)

\* mutant of SetResult: a result holder that exists is left as it is
SetResultKeepExisting(self, r, result, comment, inject) ==
    LET s1 == IF comment # NoneStr THEN SetComment(self, comment) ELSE self
        s2 == IF s1.result # Null THEN s1
              ELSE SetAttr(s1, "result", EnumOptionIdType(result))
    IN Save(s2, r, inject)

\* Record.setResult
SetResult(self, r, result, comment, inject) ==
    LET s1 == IF comment # NoneStr THEN SetComment(self, comment) ELSE self
        s2 == IF s1.result # Null
              THEN SharedUpdate(s1, "result", [s1.result EXCEPT !.id = result])
              ELSE SetAttr(s1, "result", EnumOptionIdType(result))
    IN Save(s2, r, inject)

\* mutant of LazyInitSteps: the steps are queried and the slots allocated on
\* every call
LazyInitStepsAlways(self, stepsFail) ==
    LET call == [call |-> "getTestSteps", testcase |-> self.testCaseURI]
        test_steps == GetTestSteps(self.testCaseURI)
        number_of_steps == IF test_steps.steps # Null
                           THEN Len(test_steps.steps.TestStep) ELSE 0
    IN IF stepsFail
       THEN [self |-> self, calls |-> <<call>>, raised |-> "ServiceError"]
       ELSE [self |-> SetAttr(self, "testStepResults",
                         [ArrayOfTestStepResultType EXCEPT !.TestStepResult =
                             [i \in 1..number_of_steps |-> TestStepResultType]]),
             calls |-> <<call>>, raised |-> NoError]

\* Record.setTestStepResult, lines 59-69: the lazy initialisation of the
\* step results; stepsFail: service.getTestSteps raises
LazyInitSteps(self, stepsFail) ==
    LET call == [call |-> "getTestSteps", testcase |-> self.testCaseURI]
        test_steps == GetTestSteps(self.testCaseURI)
        number_of_steps == IF test_steps.steps # Null
                           THEN Len(test_steps.steps.TestStep) ELSE 0
    IN IF self.testStepResults # Null
       THEN [self |-> self, calls |-> <<>>, raised |-> NoError]
       ELSE IF stepsFail
       THEN [self |-> self, calls |-> <<call>>, raised |-> "ServiceError"]
       ELSE [self |-> SetAttr(self, "testStepResults",
                         [ArrayOfTestStepResultType EXCEPT !.TestStepResult =
                             [i \in 1..number_of_steps |-> TestStepResultType]]),
             calls |-> <<call>>, raised |-> NoError]

\* mutant of AssignStep: the slot's comment is always replaced, by no comment
\* when none is given
AssignStepClearingComment(self, step_number, result, comment) ==
    LET slots == self.testStepResults.TestStepResult
        pos == IF step_number >= 0 THEN step_number + 1
               ELSE step_number + Len(slots) + 1
        slot1 == [slots[pos] EXCEPT !.result = EnumOptionIdType(result)]
        slot2 == [slot1 EXCEPT !.comment = IF comment # NoneStr
                                           THEN TextType(comment) ELSE Null]
    IN IF step_number < Len(slots)
       THEN IF pos < 1 THEN [self |-> self, raised |-> "IndexError"]
            ELSE [self |-> SharedUpdate(self, "testStepResults",
                              [self.testStepResults EXCEPT
                                  !.TestStepResult = [slots EXCEPT ![pos] = slot2]]),
                  raised |-> NoError]
       ELSE [self |-> self, raised |-> NoError]

\* Record.setTestStepResult, lines 71-76: the assignment to the slot
AssignStep(self, step_number, result, comment) ==
    LET slots == self.testStepResults.TestStepResult
        \* the position a Python list index selects; negative counts from the end
        pos == IF step_number >= 0 THEN step_number + 1
               ELSE step_number + Len(slots) + 1
        slot1 == [slots[pos] EXCEPT !.result = EnumOptionIdType(result)]
        slot2 == IF comment # NoneStr
                 THEN [slot1 EXCEPT !.comment = TextType(comment)]
                 ELSE slot1
    IN IF step_number < Len(slots)
       THEN IF pos < 1 THEN [self |-> self, raised |-> "IndexError"]
            ELSE [self |-> SharedUpdate(self, "testStepResults",
                              [self.testStepResults EXCEPT
                                  !.TestStepResult = [slots EXCEPT ![pos] = slot2]]),
                  raised |-> NoError]
       ELSE [self |-> self, raised |-> NoError]

\* mutant of SetTestStepResult: a step number past the last slot is an error
SetTestStepResultStrict(self, r, step_number, result, comment, inject) ==
    LET li == LazyInitSteps(self, inject = "steps")
        as == AssignStep(li.self, step_number, result, comment)
        sv == Save(as.self, r, inject)
    IN IF li.raised # NoError THEN Outcome(li.self, r, li.calls, li.raised)
       ELSE IF step_number >= Len(li.self.testStepResults.TestStepResult)
       THEN Outcome(li.self, r, li.calls, "IndexError")
       ELSE IF as.raised # NoError THEN Outcome(as.self, r, li.calls, as.raised)
       ELSE Outcome(sv.self, sv.run, li.calls \o sv.calls, sv.raised)

\* Record.setTestStepResult
SetTestStepResult(self, r, step_number, result, comment, inject) ==
    LET li == LazyInitSteps(self, inject = "steps")
        as == AssignStep(li.self, step_number, result, comment)
        sv == Save(as.self, r, inject)
    IN IF li.raised # NoError THEN Outcome(li.self, r, li.calls, li.raised)
       ELSE IF as.raised # NoError THEN Outcome(as.self, r, li.calls, as.raised)
       ELSE Outcome(sv.self, sv.run, li.calls \o sv.calls, sv.raised)

NoUrl == <<>>

\* mutant of GetAttachment: the fetch is issued without a matching entry
GetAttachmentNoMissCheck(self, r, file_name, ok) ==
    IF self.attachments = Null THEN Outcome(self, r, <<>>, "AttributeError")
    ELSE LET atts == self.attachments.TestRunAttachment
             hits == {i \in 1..Len(atts) : atts[i].fileName = file_name}
             url == IF hits = {} THEN NoUrl
                    ELSE atts[CHOOSE i \in hits : \A j \in hits : j <= i].url
             get == [call |-> "requests.get", url |-> url]
         IN Outcome(self, r, <<get>>,
                    IF ok /\ url # NoUrl THEN NoError ELSE "AttachmentDownloadFailed")

\* Record.getAttachment; ok: the HTTP response's resp.ok.  The raised
\* Exception('Could not find attachment ...') is AttachmentNotFound, the
\* Exception('Could not download attachment ...') AttachmentDownloadFailed.
GetAttachment(self, r, file_name, ok) ==
    IF self.attachments = Null THEN Outcome(self, r, <<>>, "AttributeError")
    ELSE LET atts == self.attachments.TestRunAttachment
             hits == {i \in 1..Len(atts) : atts[i].fileName = file_name}
             url == IF hits = {} THEN NoUrl
                    ELSE atts[CHOOSE i \in hits : \A j \in hits : j <= i].url
             get == [call |-> "requests.get", url |-> url]
         IN IF url # NoUrl
            THEN Outcome(self, r, <<get>>,
                         IF ok THEN NoError ELSE "AttachmentDownloadFailed")
            ELSE Outcome(self, r, <<>>, "AttachmentNotFound")

\* mutant of DeleteAttachment: local edits are saved before the deletion
DeleteAttachmentSavingFirst(self, r, file_name, inject) ==
    LET uri == self["_test_run"].uri
        call == [call |-> "deleteAttachmentFromTestRecord", uri |-> uri,
                 index |-> self["_index"], fileName |-> file_name]
        sv == Save(self, r, "none")
    IN IF inject = "write" THEN Outcome(sv.self, sv.run, sv.calls \o <<call>>, "ServiceError")
       ELSE LET rl == ReloadFromPolarion(
                          sv.self,
                          DeleteAttachmentFromTestRecord(sv.run, uri, self["_index"], file_name),
                          inject)
            IN Outcome(rl.self, rl.run, sv.calls \o <<call>> \o rl.calls, rl.raised)

\* mutant of DeleteAttachment: the name is first looked up locally
DeleteAttachmentChecked(self, r, file_name, inject) ==
    LET uri == self["_test_run"].uri
        call == [call |-> "deleteAttachmentFromTestRecord", uri |-> uri,
                 index |-> self["_index"], fileName |-> file_name]
        known == /\ self.attachments # Null
                 /\ \E i \in 1..Len(self.attachments.TestRunAttachment) :
                        self.attachments.TestRunAttachment[i].fileName = file_name
    IN IF ~known THEN Outcome(self, r, <<>>, "AttachmentNotFound")
       ELSE IF inject = "write" THEN Outcome(self, r, <<call>>, "ServiceError")
       ELSE LET rl == ReloadFromPolarion(
                          self,
                          DeleteAttachmentFromTestRecord(r, uri, self["_index"], file_name),
                          inject)
            IN Outcome(rl.self, rl.run, <<call>> \o rl.calls, rl.raised)

\* Record.deleteAttachment
DeleteAttachment(self, r, file_name, inject) ==
    LET uri == self["_test_run"].uri
        call == [call |-> "deleteAttachmentFromTestRecord", uri |-> uri,
                 index |-> self["_index"], fileName |-> file_name]
    IN IF inject = "write" THEN Outcome(self, r, <<call>>, "ServiceError")
       ELSE LET rl == ReloadFromPolarion(
                          self,
                          DeleteAttachmentFromTestRecord(r, uri, self["_index"], file_name),
                          inject)
            IN Outcome(rl.self, rl.run, <<call>> \o rl.calls, rl.raised)

\* mutant of AddAttachment: the upload is not followed by a reload
AddAttachmentNoReload(self, r, file_path, title, readable, inject) ==
    LET uri == self["_test_run"].uri
        file_name == PathBaseName(file_path)
        call == [call |-> "addAttachmentToTestRecord", uri |-> uri,
                 index |-> self["_index"], fileName |-> file_name, title |-> title]
    IN IF ~readable THEN Outcome(self, r, <<>>, "FileNotFoundError")
       ELSE IF inject = "write" THEN Outcome(self, r, <<call>>, "ServiceError")
       ELSE Outcome(self, AddAttachmentToTestRecord(r, uri, self["_index"], file_name, title),
                    <<call>>, NoError)

\* Record.addAttachment; readable: open(file_path, "rb") succeeds
AddAttachment(self, r, file_path, title, readable, inject) ==
    LET uri == self["_test_run"].uri
        file_name == PathBaseName(file_path)
        call == [call |-> "addAttachmentToTestRecord", uri |-> uri,
                 index |-> self["_index"], fileName |-> file_name, title |-> title]
    IN IF ~readable THEN Outcome(self, r, <<>>, "FileNotFoundError")
       ELSE IF inject = "write" THEN Outcome(self, r, <<call>>, "ServiceError")
       ELSE LET rl == ReloadFromPolarion(
                          self,
                          AddAttachmentToTestRecord(r, uri, self["_index"], file_name, title),
                          inject)
            IN Outcome(rl.self, rl.run, <<call>> \o rl.calls, rl.raised)

----------------------------------------------------------------------------
(* The callers: each step is one call of a method of one instance, the     *)
(* model being single-threaded and blocking.                               *)

Injects == {"none", "write", "fetch"}    \* the service call that raises, if any
Comments == {"c1"}
FileNames == {"a.txt", "b.txt"}
UploadPaths == {<<"tmp", "b.txt">>}
Titles == {"title"}

\* the arguments setResult is called with; NoneStr as result is ResultType.No
SetResultArgs ==
    {[result |-> "passed", comment |-> NoneStr],
     [result |-> "passed", comment |-> "c1"],
     [result |-> NoneStr, comment |-> NoneStr]}

\* the arguments setTestStepResult is called with: step numbers below,
\* within and past the two steps of TC-1
SetTestStepResultArgs ==
    {[step_number |-> -3, result |-> "passed", comment |-> NoneStr],
     [step_number |-> -1, result |-> "passed", comment |-> NoneStr],
     [step_number |-> 0, result |-> "passed", comment |-> NoneStr],
     [step_number |-> 0, result |-> "passed", comment |-> "c1"],
     [step_number |-> 2, result |-> "passed", comment |-> NoneStr]}

\* a record as the service holds it before any operation
InitialRecord(tc, result, attachments, custom) ==
    [testCaseURI |-> tc, defectURI |-> NoneStr, result |-> result, comment |-> Null,
     testStepResults |-> Null, attachments |-> attachments,
     executed |-> "t0", custom |-> custom]

OneAttachment ==
    [TestRunAttachment |->
        << [fileName |-> "a.txt", title |-> "title", url |-> AttachmentUrl("a.txt")] >>]

\* the runs the service may hold at the start: the first record is of TC-1,
\* has no result yet and one attachment; the second is of TC-1 again or of
\* TC-2, the others of TC-2, each with a result and no attachments
InitialRuns ==
    {[i \in 1..NumRecords |->
        IF i = 1 THEN InitialRecord(TC1, Null, OneAttachment, "u1")
        ELSE InitialRecord(IF i = 2 THEN tc ELSE TC2,
                           EnumOptionIdType("passed"), Null, "u2")] :
     tc \in {TC1, TC2}}

Init ==
    /\ run \in InitialRuns
    /\ \E index \in [Instances -> 0..(NumRecords - 1)] :
          /\ index["A"] <= index["B"]       \* the instances are interchangeable
          /\ obj = [p \in Instances |->
                    NewRecord(Payload(run[index[p] + 1]), index[p]).self]
    /\ calls = <<>>
    /\ last = [p |-> "-", op |-> "__init__", args |-> [none |-> TRUE],
               inject |-> "none", raised |-> NoError, pre |-> obj["A"],
               prev |-> [p |-> "-", op |-> "-", args |-> [none |-> TRUE],
                         raised |-> NoError]]
    /\ nops = 0

\* the effect of a call on the state: out is what the method left
Call(p, op, args, inject, out) ==
    /\ nops < MaxOps
    /\ obj' = [obj EXCEPT ![p] = out.self]
    /\ run' = out.run
    /\ calls' = out.calls
    /\ last' = [p |-> p, op |-> op, args |-> args, inject |-> inject,
                raised |-> out.raised, pre |-> obj[p],
                prev |-> [p |-> last.p, op |-> last.op, args |-> last.args,
                          raised |-> last.raised]]
    /\ nops' = nops + 1

DoSetComment(p) ==
    \E c \in Comments :
        Call(p, "setComment", [comment |-> c], "none",
             Outcome(SetComment(obj[p], c), run, <<>>, NoError))

DoSetResult(p) ==
    \E args \in SetResultArgs, inject \in Injects :
        /\ inject # "none" => args = [result |-> "passed", comment |-> NoneStr]
        /\ Call(p, "setResult", args, inject,
                SetResult(obj[p], run, args.result, args.comment, inject))

\* setResult() with its defaults: result=ResultType.FAILED, comment=None
DoSetResultDefault(p) ==
    \E inject \in {"none", "write"} :
        Call(p, "setResult()", [result |-> FAILED, comment |-> NoneStr], inject,
             SetResult(obj[p], run, FAILED, NoneStr, inject))

DoSetTestStepResult(p) ==
    \E args \in SetTestStepResultArgs, inject \in Injects \cup {"steps"} :
        /\ inject # "none" => args.step_number = 0 /\ args.comment = NoneStr
        /\ inject = "steps" => obj[p].testStepResults = Null
        /\ Call(p, "setTestStepResult", args, inject,
                SetTestStepResult(obj[p], run, args.step_number, args.result,
                                  args.comment, inject))

DoSave(p) ==
    \E inject \in Injects :
        Call(p, "save", [none |-> TRUE], inject, Save(obj[p], run, inject))

DoGetAttachment(p) ==
    \E f \in FileNames, ok \in BOOLEAN :
        LET out == GetAttachment(obj[p], run, f, ok)
        IN /\ ~ok => out.calls # <<>>      \* a response exists only if fetched
           /\ Call(p, "getAttachment", [file_name |-> f, ok |-> ok], "none", out)

DoAddAttachment(p) ==
    \E path \in UploadPaths, title \in Titles, readable \in BOOLEAN, inject \in Injects :
        /\ ~readable => inject = "none"
        /\ LET rec == run[obj[p]["_index"] + 1]
           IN rec.attachments # Null =>
                 Len(rec.attachments.TestRunAttachment) < MaxAttachments
        /\ Call(p, "addAttachment", [file_path |-> path, title |-> title,
                                     readable |-> readable], inject,
                AddAttachment(obj[p], run, path, title, readable, inject))

DoDeleteAttachment(p) ==
    \E f \in FileNames, inject \in Injects :
        /\ inject # "none" => f = "a.txt"
        /\ Call(p, "deleteAttachment", [file_name |-> f], inject,
                DeleteAttachment(obj[p], run, f, inject))

Next ==
    \E p \in Instances :
        \/ DoSetComment(p)
        \/ DoSetResult(p)
        \/ DoSetResultDefault(p)
        \/ DoSetTestStepResult(p)
        \/ DoSave(p)
        \/ DoGetAttachment(p)
        \/ DoAddAttachment(p)
        \/ DoDeleteAttachment(p)

Spec == Init /\ [][Next]_vars

\* the faults of the answer to a reload's getTestCaseRecords
ResponseFaults == {"empty", "malformed"}

\* a save or a deleteAttachment whose reload gets a faulty answer
DoFaultyReload(p) ==
    \E fault \in ResponseFaults :
        \/ Call(p, "save", [none |-> TRUE], fault, Save(obj[p], run, fault))
        \/ Call(p, "deleteAttachment", [file_name |-> "a.txt"], fault,
                DeleteAttachment(obj[p], run, "a.txt", fault))

NextFaulty ==
    \/ Next
    \/ \E p \in Instances : DoFaultyReload(p)

\* the program with a service whose answers to a reload may be faulty
SpecFaulty == Init /\ [][NextFaulty]_vars

----------------------------------------------------------------------------
(* Properties *)

SavingOps == {"save", "setResult", "setResult()", "setTestStepResult"}

\* the instance the last operation ran on
Self == obj[last.p]

\* the record of identity (test run, index) as the service holds it: what a
\* fresh load of that identity is built from
FreshLoad(self) == run[self["_index"] + 1]

CallNames == [i \in 1..Len(calls) |-> calls[i].call]

\* the records submitted by the executeTest calls of the last operation
Submitted == SelectSeq(calls, LAMBDA c : c.call = "executeTest")

\* the instance is the first record of its testcase in its run
FirstOfTestcase(self) ==
    \A i \in 1..self["_index"] : run[i].testCaseURI # self.testCaseURI

\* C1: after any successful save (direct, or through setResult or
\* setTestStepResult) the public fields of the projection are exactly the
\* fields of the record of its identity (test run, index) at the service:
\* the same names, each with the service's value.
C1_SaveEqualsFreshLoad ==
    (last.op \in SavingOps /\ last.raised = NoError)
        => PublicBag(Self) = FreshLoad(Self)

\* the fields an operation assigns before it saves
Touched(op) ==
    CASE op \in {"setResult", "setResult()"} -> {"result", "comment"}
      [] op = "setTestStepResult" -> {"testStepResults"}
      [] OTHER -> {}

\* C2: the record every executeTest call carries is exactly the public
\* fields of the projection with their current values: it holds no field
\* whose name starts with '_', it holds every public field, every field the
\* operation did not assign has the value it had before the call, and when
\* the call fails (so that nothing is reloaded) the record is the public
\* part of the projection as it stands.
C2_SaveScope ==
    \A i \in 1..Len(calls) :
        calls[i].call = "executeTest" =>
            LET bag == calls[i].record IN
            /\ \A a \in DOMAIN bag : ~StartsWithUnderscore(a)
            /\ \A a \in DOMAIN last.pre : ~StartsWithUnderscore(a) => a \in DOMAIN bag
            /\ \A a \in DOMAIN bag \cap DOMAIN last.pre :
                  a \notin Touched(last.op) => bag[a] = last.pre[a]
            /\ last.raised = "RemoteWriteFailure" =>
                  /\ DOMAIN bag = {a \in DOMAIN Self : ~StartsWithUnderscore(a)}
                  /\ \A a \in DOMAIN bag : bag[a] = Self[a]

C2_Witness ==
    /\ last.op = "save" /\ last.raised = NoError
    /\ Len(Submitted) = 1
    /\ last.pre.comment # Null
    /\ Submitted[1].record.comment = last.pre.comment
    /\ Submitted[1].record.custom = last.pre.custom

C4_FailedSaveKeepsLocalState ==
    (last.op \in SavingOps /\ last.inject = "write") =>
        /\ last.raised = "RemoteWriteFailure"
        /\ \A i \in 1..Len(calls) : calls[i].call # "getTestCaseRecords"
        /\ last.op = "save" => Self = last.pre
        /\ last.op \in {"setResult", "setResult()"} =>
              /\ Self.result = EnumOptionIdType(last.args.result)
              /\ Self.comment = IF last.args.comment # NoneStr
                                THEN TextType(last.args.comment) ELSE last.pre.comment
        /\ \A a \in DOMAIN Self :
              (~StartsWithUnderscore(a) /\ a \notin Touched(last.op)) =>
                  (a \in DOMAIN last.pre /\ Self[a] = last.pre[a])

C4_Witness ==
    /\ last.op = "setResult" /\ last.inject = "write"
    /\ last.raised = "RemoteWriteFailure"
    /\ Self.result # last.pre.result
    /\ Self.result # FreshLoad(Self).result

\* C5: after a successful setResult(r) getResult() returns r, whether the
\* result was unset or set before; setResult() without arguments gives FAILED.
C5_SetResultThenGetResult ==
    /\ (last.op = "setResult" /\ last.raised = NoError)
          => GetResult(Self) = last.args.result
    /\ (last.op = "setResult()" /\ last.raised = NoError)
          => GetResult(Self) = "failed"

C5_Witness ==
    /\ last.op = "setResult()" /\ last.raised = NoError
    /\ last.pre.result # Null
    /\ GetResult(last.pre) = "passed"
    /\ GetResult(Self) = "failed"

\* the step results of an instance once lazily initialised: as many empty
\* slots as its testcase has steps when it has none yet
StepsBefore(self) ==
    IF self.testStepResults # Null THEN self.testStepResults
    ELSE LET steps == GetTestSteps(self.testCaseURI).steps
         IN [TestStepResult |->
                [i \in 1..(IF steps = Null THEN 0 ELSE Len(steps.TestStep)) |->
                    TestStepResultType]]

NumberOfSteps(self) == Len(StepsBefore(self).TestStepResult)

\* the calls after the optional getTestSteps are one executeTest and then
\* one getTestCaseRecords
SaveThenReload ==
    LET cs == SelectSeq(calls, LAMBDA c : c.call # "getTestSteps")
    IN /\ Len(cs) = 2
       /\ cs[1].call = "executeTest"
       /\ cs[2].call = "getTestCaseRecords"
       /\ Len(calls) - Len(cs) <= 1

\* C6: setTestStepResult(n, r) with n >= number_of_steps raises nothing and
\* saves: one executeTest call followed by one reload, the calls a step
\* number within bounds gives as well.
C6_StepBoundsStillSaves ==
    (last.op = "setTestStepResult" /\ last.inject = "none"
        /\ last.args.step_number >= 0) =>
            /\ last.raised = NoError
            /\ SaveThenReload

C6_Witness ==
    /\ last.op = "setTestStepResult" /\ last.inject = "none"
    /\ NumberOfSteps(last.pre) = 2
    /\ last.args.step_number >= NumberOfSteps(last.pre)
    /\ last.raised = NoError
    /\ SaveThenReload

\* C7: for every step_number outside 0 .. number_of_steps-1, negative ones
\* included, setTestStepResult raises nothing and the step results its save
\* submits are those before the call (after lazy initialisation).
C7_OutOfRangeStepIgnored ==
    (last.op = "setTestStepResult" /\ last.inject = "none"
        /\ last.args.step_number \notin 0..(NumberOfSteps(last.pre) - 1)) =>
            /\ last.raised = NoError
            /\ Len(Submitted) = 1
            /\ Submitted[1].record.testStepResults = StepsBefore(last.pre)

\* C8: with the attachments collection present, getAttachment(name) without
\* an entry of that name (the empty collection included) fails with
\* AttachmentNotFound and fetches nothing; with an entry of that name it
\* issues one fetch, and a response that is not ok fails with
\* AttachmentDownloadFailed.
C8_AttachmentMiss ==
    (last.op = "getAttachment" /\ last.pre.attachments # Null) =>
        LET atts == last.pre.attachments.TestRunAttachment
            match == \E i \in 1..Len(atts) : atts[i].fileName = last.args.file_name
        IN /\ ~match => (last.raised = "AttachmentNotFound" /\ calls = <<>>)
           /\ match =>
                 /\ Len(calls) = 1 /\ calls[1].call = "requests.get"
                 /\ last.raised = IF last.args.ok THEN NoError
                                  ELSE "AttachmentDownloadFailed"

C8_Witness ==
    /\ last.op = "getAttachment"
    /\ last.pre.attachments # Null
    /\ last.pre.attachments.TestRunAttachment = <<>>
    /\ last.raised = "AttachmentNotFound"
    /\ calls = <<>>

\* the last two operations are deleteAttachment(name) on one instance, the
\* first successful and no service call of the second failing
DeletedTwice ==
    /\ last.op = "deleteAttachment" /\ last.inject = "none"
    /\ last.prev.op = "deleteAttachment" /\ last.prev.raised = NoError
    /\ last.prev.p = last.p
    /\ last.prev.args = last.args

\* C9: the second of two deleteAttachment(name) calls in a row raises
\* nothing and leaves the projection as the first left it.
C9_DeleteIdempotent ==
    DeletedTwice => (last.raised = NoError /\ Self = last.pre)

C9_Witness ==
    /\ DeletedTwice
    /\ last.args.file_name = "a.txt"
    /\ Self["_index"] = 0
    /\ Self.attachments # Null
    /\ last.raised = NoError

\* C10: no operation, successful or failed, changes the test run reference
\* or the index of any instance.
C10_IdentityImmutable ==
    [][\A p \in Instances :
          /\ obj'[p]["_index"] = obj[p]["_index"]
          /\ obj'[p]["_test_run"] = obj[p]["_test_run"]]_vars

C10_Witness ==
    /\ last.op = "deleteAttachment" /\ last.raised = NoError
    /\ Self["_index"] = 1
    /\ Self.custom # last.pre.custom

\* the reference has the form '{ns}rest': one delimiter '}', at position k
HasNamespaceForm(uri) ==
    Cardinality({k \in 1..Len(uri) : uri[k] = "}"}) = 1

\* what follows the delimiter of such a reference
AfterDelimiter(uri) ==
    LET k == CHOOSE i \in 1..Len(uri) : uri[i] = "}"
    IN SubSeq(uri, k + 1, Len(uri))

\* C11: whenever the testcase reference in the field bag has the form
\* '{ns}rest', getTestCaseName() is what follows the delimiter ('Proj/TC-1'
\* for '...}Proj/TC-1'), after construction and after every reload.
C11_NameDerivation ==
    \A p \in Instances :
        HasNamespaceForm(obj[p].testCaseURI) =>
            /\ GetTestCaseName(obj[p]) = AfterDelimiter(obj[p].testCaseURI)
            /\ obj[p].testCaseURI = TC1 => GetTestCaseName(obj[p]) = <<"Proj/TC-1">>

C11_Witness ==
    /\ last.op = "deleteAttachment" /\ last.raised = NoError
    /\ Len(calls) = 2 /\ calls[2].call = "getTestCaseRecords"
    /\ Self.testCaseURI = TC2
    /\ GetTestCaseName(Self) = <<"Proj/TC-2">>

\* the service write each mutating operation performs
WriteOf(op) ==
    CASE op \in SavingOps -> "executeTest"
      [] op = "addAttachment" -> "addAttachmentToTestRecord"
      [] op = "deleteAttachment" -> "deleteAttachmentFromTestRecord"

\* the service calls of the last operation that write or fetch a record
WritesAndFetches ==
    SelectSeq(calls, LAMBDA c : c.call \in
        {"executeTest", "addAttachmentToTestRecord",
         "deleteAttachmentFromTestRecord", "getTestCaseRecords"})

\* C12: a mutating operation (save, setResult, setTestStepResult,
\* addAttachment, deleteAttachment) that returns without error has issued
\* exactly one service write, the one of its kind, and after it exactly one
\* getTestCaseRecords, which is its last call.
C12_WriteThenOneReload ==
    (last.op \in SavingOps \cup {"addAttachment", "deleteAttachment"}
        /\ last.raised = NoError) =>
        /\ Len(calls) >= 2
        /\ [i \in 1..Len(WritesAndFetches) |-> WritesAndFetches[i].call]
               = <<WriteOf(last.op), "getTestCaseRecords">>
        /\ calls[Len(calls)].call = "getTestCaseRecords"
        /\ calls[Len(calls) - 1].call = WriteOf(last.op)

C12_Witness ==
    /\ last.op = "addAttachment" /\ last.raised = NoError
    /\ CallNames = <<"addAttachmentToTestRecord", "getTestCaseRecords">>

\* C13: after a successful operation that ends in a reload (save,
\* addAttachment, deleteAttachment) the projection holds the payload of the
\* record at its own index, also when other records of the run share its
\* testcase.
C13_ReloadKeepsOwnRecord ==
    (last.op \in {"save", "addAttachment", "deleteAttachment"}
        /\ last.raised = NoError) =>
        /\ Self["_polarion_record"] = Payload(FreshLoad(Self))
        /\ \A k \in DOMAIN FreshLoad(Self) : Self[k] = FreshLoad(Self)[k]

\* C14: setResult(r, c) issues exactly one executeTest; the record it
\* carries has result id r and the comment c when c is given, and the comment
\* the projection held before the call when c is None.
C14_SetResultSubmits ==
    last.op \in {"setResult", "setResult()"} =>
        /\ Len(Submitted) = 1
        /\ Submitted[1].record.result.id = last.args.result
        /\ Submitted[1].record.comment =
               IF last.args.comment # NoneStr THEN TextType(last.args.comment)
               ELSE last.pre.comment

C14_Witness ==
    /\ last.op = "setResult" /\ last.raised = NoError
    /\ last.args = [result |-> "passed", comment |-> "c1"]
    /\ last.pre.comment = Null
    /\ Submitted[1].record.comment.content = "c1"
    /\ Submitted[1].record.result.id = "passed"

\* the getTestSteps queries of the last operation
StepQueries == SelectSeq(calls, LAMBDA c : c.call = "getTestSteps")

\* the step results as the last setTestStepResult left them: the submitted
\* ones, or the local ones when the call ended before its save
StepsAfter ==
    IF Submitted # <<>> THEN Submitted[1].record.testStepResults
    ELSE Self.testStepResults

\* C15: setTestStepResult queries getTestSteps exactly when the projection's
\* step results are null at the start of the call, once, for its own
\* testcase; it then holds as many slots as the testcase has steps (none for
\* a testcase without steps), all empty but the one assigned.  When the step
\* results exist there is no query and the number of slots is unchanged.
C15_LazyStepInit ==
    last.op = "setTestStepResult" =>
        IF last.pre.testStepResults = Null
        THEN /\ Len(StepQueries) = 1
             /\ calls[1] = [call |-> "getTestSteps", testcase |-> last.pre.testCaseURI]
             /\ last.inject # "steps" =>
                  LET steps == GetTestSteps(last.pre.testCaseURI).steps
                      slots == StepsAfter.TestStepResult
                  IN /\ Len(slots) = IF steps = Null THEN 0 ELSE Len(steps.TestStep)
                     /\ Cardinality({i \in 1..Len(slots) :
                                        slots[i] # TestStepResultType}) <= 1
                     /\ last.args.step_number >= Len(slots) =>
                            \A i \in 1..Len(slots) : slots[i] = TestStepResultType
        ELSE /\ StepQueries = <<>>
             /\ Len(StepsAfter.TestStepResult)
                    = Len(last.pre.testStepResults.TestStepResult)

C15_Witness ==
    /\ last.op = "setTestStepResult" /\ last.raised = NoError
    /\ last.pre.testStepResults # Null
    /\ last.prev.op = "setTestStepResult"
    /\ CallNames = <<"executeTest", "getTestCaseRecords">>
    /\ Len(Self.testStepResults.TestStepResult) = 2

\* C16: for a step number n with 0 <= n < number of slots, the step results
\* setTestStepResult(n, r, c) submits are the ones held before (the freshly
\* allocated empty ones after a lazy initialisation) with slot n changed
\* only: its result id is r, its comment is c when c is given and is kept
\* otherwise.  Every other slot is unchanged.
C16_OnlySlotNChanges ==
    (last.op = "setTestStepResult" /\ last.inject # "steps"
        /\ last.args.step_number >= 0
        /\ last.args.step_number < NumberOfSteps(last.pre)) =>
        LET before == StepsBefore(last.pre).TestStepResult
            n == last.args.step_number + 1
        IN /\ Len(Submitted) = 1
           /\ Submitted[1].record.testStepResults.TestStepResult =
                  [before EXCEPT ![n] =
                      [result |-> EnumOptionIdType(last.args.result),
                       comment |-> IF last.args.comment # NoneStr
                                   THEN TextType(last.args.comment)
                                   ELSE before[n].comment]]
           /\ Submitted[1].record.testStepResults.TestStepResult[n].result.id
                  = last.args.result

C16_Witness ==
    /\ last.op = "setTestStepResult" /\ last.raised = NoError
    /\ last.args = [step_number |-> 0, result |-> "passed", comment |-> NoneStr]
    /\ last.pre.testStepResults # Null
    /\ last.pre.testStepResults.TestStepResult[1].comment = TextType("c1")
    /\ Submitted[1].record.testStepResults.TestStepResult[1].comment = TextType("c1")
    /\ Submitted[1].record.testStepResults.TestStepResult[2] = TestStepResultType

\* the record the service holds for the testcase of the instance: the one
\* executeTest replaces and getTestCaseRecords returns first
ServiceRecord(self) ==
    GetTestCaseRecords(run, self["_test_run"].uri, self.testCaseURI)[1].values

ReloadFailed ==
    /\ last.op \in {"save", "addAttachment", "deleteAttachment"}
    /\ last.inject \in {"fetch"} \cup ResponseFaults

\* C18: when the reload of a save, addAttachment or deleteAttachment fails
\* (the fetch raises, returns no record, or returns a payload whose testcase
\* reference cannot be parsed) the operation raises and the projection is as
\* it was before the operation: payload, public fields and derived fields.
C18_FailedReloadLeavesProjection ==
    ReloadFailed => /\ last.raised # NoError
                    /\ Self = last.pre

\* C19: setComment changes the comment attribute of the projection and
\* nothing else, and makes no service call.  When the same projection next
\* runs addAttachment or deleteAttachment with success, no executeTest is
\* issued, so the comment never reaches the service, and the reload puts the
\* service's comment in place of the unsaved one.
C19_UnsavedCommentLost ==
    /\ last.op = "setComment" =>
          /\ calls = <<>>
          /\ last.raised = NoError
          /\ Self = SetAttr(last.pre, "comment", TextType(last.args.comment))
    /\ (last.prev.op = "setComment" /\ last.prev.p = last.p
           /\ last.op \in {"addAttachment", "deleteAttachment"}
           /\ last.raised = NoError) =>
          /\ \A i \in 1..Len(calls) : calls[i].call # "executeTest"
          /\ Self.comment = ServiceRecord(Self).comment
          /\ Self.comment = Self["_polarion_record"].values.comment

C19_Witness ==
    /\ last.prev.op = "setComment" /\ last.prev.p = last.p
    /\ last.op = "deleteAttachment" /\ last.raised = NoError
    /\ last.pre.comment = TextType("c1")
    /\ Self.comment = Null
    /\ ServiceRecord(Self).comment = Null

\* C20: on a projection whose attachments collection is null,
\* getAttachment(name) fails with AttachmentNotFound for every name, as it
\* does on a collection without an entry of that name, and issues no HTTP
\* fetch.
C20_NullAttachmentsNotFound ==
    (last.op = "getAttachment" /\ last.pre.attachments = Null) =>
        /\ last.raised = "AttachmentNotFound"
        /\ calls = <<>>

====
